---- MODULE Spec2Model ----
(***************************************************************************)
(* The Gitadora skills view (skills.react.js) and the bootstrap script.    *)
(*                                                                         *)
(* The view is a React component whose only mutable state is the selected  *)
(* version; every handler ends with a re-render, so the rendered element   *)
(* tree is kept in the variable view.  The bootstrap script is a straight  *)
(* line of ./read invocations under set -e.                                *)
(***************************************************************************)
EXTENDS Integers, Sequences, FiniteSets, TLC

VARIABLES
    versions,   \* window.versions: version number -> display name
    player,     \* window.player: version number -> player record
    hash,       \* the version the navigation state holds at load (0: none)
    version,    \* this.state.version
    history,    \* the arguments of the pagenav.navigate calls, oldest first
    lastEvent,  \* the handler that ran last and the version it was asked for
    view,       \* what render returned last (or that it raised)
    pc,         \* bootstrap: index of the next ./read line
    ran,        \* bootstrap: the invocations executed, with their exit codes
    exited,     \* bootstrap: whether the shell has terminated
    exitCode    \* bootstrap: the exit code of the script

vars == <<versions, player, hash, version, history, lastEvent, view,
          pc, ran, exited, exitCode>>

viewVars == <<versions, player, hash, version, history, lastEvent, view>>
bootVars == <<pc, ran, exited, exitCode>>

----------------------------------------------------------------------------
(* Bounds of the model *)

\* The highest version number a catalog or a snapshot holds.
MaxVersion == 8

\* The number of navigation entries after which the handlers stop navigating.
MaxHistory == 2

\* The highest exit code an import invocation returns.
MaxExit == 2

----------------------------------------------------------------------------
(* Program constants *)

\* this.state.version >= 7
MinSkillsVersion == 7

----------------------------------------------------------------------------
(* JavaScript values *)

\* A property that is absent reads as undefined; JSON null is an object.
Undefined == [t |-> "undefined"]
Null == [t |-> "null"]
List(s) == [t |-> "list", v |-> s]

\* Object.keys of an object with integer keys: ascending numeric order.
RECURSIVE ObjectKeys(_)
ObjectKeys(S) ==
    IF S = {} THEN <<>>
    ELSE LET m == CHOOSE x \in S : \A y \in S : x <= y
         IN  <<m>> \o ObjectKeys(S \ {m})

\* Array.prototype.indexOf, 0-based; -1 when x is no element of s.
IndexOf(s, x) ==
    IF \E i \in 1..Len(s) : s[i] = x
    THEN (CHOOSE i \in 1..Len(s) : s[i] = x /\ \A j \in 1..(i - 1) : s[j] # x) - 1
    ELSE -1

\* s[i] of an array of strings, 0-based; out of range reads as undefined.
At(s, i) == IF i + 1 \in 1..Len(s) THEN s[i + 1] ELSE "undefined"

Digit(d) == <<"0", "1", "2", "3", "4", "5", "6", "7", "8", "9">>[d + 1]

\* The decimal digits of a natural number.
RECURSIVE NatStr(_)
NatStr(n) == IF n < 10 THEN <<Digit(n)>> ELSE NatStr(n \div 10) \o <<Digit(n % 10)>>

\* String(n / 100) for an integer n: the shortest decimal that reads back as
\* the quotient, so hundredths lose their trailing zeros.
JSDiv100(n) ==
    LET a == IF n < 0 THEN -n ELSE n
        f == a % 100
    IN  (IF n < 0 THEN <<"-">> ELSE <<>>)
        \o NatStr(a \div 100)
        \o (IF f = 0 THEN <<>>
            ELSE IF f % 10 = 0 THEN <<".", Digit(f \div 10)>>
            ELSE <<".", Digit(f \div 10), Digit(f % 10)>>)

----------------------------------------------------------------------------
(* Elements *)

\* What a render function returns for "nothing".
NullElement == [kind |-> "null"]

\* <div><p>This version of Gitadora doesn't support Skills</p></div>
Notice == [kind |-> "notice", text |-> "This version of Gitadora doesn't support Skills"]

\* A TypeError raised while rendering.
TypeError == [kind |-> "throw", error |-> "TypeError"]

Throws(e) == e.kind = "throw"

LabelledSection(label, value) == [label |-> label, value |-> value]

\* The rows of a table in its default order: 'Skill', reversed.
RECURSIVE SortSkill(_)
SortSkill(rows) ==
    IF rows = <<>> THEN <<>>
    ELSE LET i == CHOOSE k \in 1..Len(rows) :
                    /\ \A j \in 1..Len(rows) : rows[j].skills_point <= rows[k].skills_point
                    /\ \A j \in 1..(k - 1) : rows[j].skills_point < rows[k].skills_point
             rest == [j \in 1..(Len(rows) - 1) |-> IF j < i THEN rows[j] ELSE rows[j + 1]]
         IN  <<rows[i]>> \o SortSkill(rest)

\* The per-song fields the five column render functions read.
ColumnFields == {"music_name", "chart", "music_difficulties", "skills_point", "perc"}

\* The Table widget: one line of cells per row, each cell from its column's
\* render function; the row it came from is kept beside the cells.
Table(className, title, sorted, cells) ==
    [kind |-> "table", className |-> className, title |-> title,
     lines |-> [i \in 1..Len(sorted) |-> [entry |-> sorted[i], cells |-> cells[i]]],
     reads |-> IF sorted = <<>> THEN {} ELSE ColumnFields]

----------------------------------------------------------------------------
(* The render functions *)

renderSkillsGF(v, p) ==
    IF v >= MinSkillsVersion
    THEN [kind |-> "skills",
          sections |-> <<
            LabelledSection("GF Skills", JSDiv100(p.gf_skills)),
            LabelledSection("GF All Skills", JSDiv100(p.gf_all_skills)),
            LabelledSection("GF Classic Skills", JSDiv100(p.gf_classic_all_skills)),
            LabelledSection("GF Clear", NatStr(p.gf_clear_music_num)),
            LabelledSection("GF FC", NatStr(p.gf_full_music_num)),
            LabelledSection("GF EXFC", NatStr(p.gf_exce_music_num)),
            LabelledSection("GF Highest Clear", JSDiv100(p.gf_clear_diff)),
            LabelledSection("GF Highest FC", JSDiv100(p.gf_full_diff)),
            LabelledSection("GF Highest EXFC", JSDiv100(p.gf_exce_diff)) >>]
    ELSE Notice

renderSkillsDM(v, p) ==
    IF v >= MinSkillsVersion
    THEN [kind |-> "skills",
          sections |-> <<
            LabelledSection("DM Skills", JSDiv100(p.dm_skills)),
            LabelledSection("DM All Skills", JSDiv100(p.dm_all_skills)),
            LabelledSection("DM Classic Skills", JSDiv100(p.dm_classic_all_skills)),
            LabelledSection("DM Clear", NatStr(p.dm_clear_music_num)),
            LabelledSection("DM FC", NatStr(p.dm_full_music_num)),
            LabelledSection("DM EXFC", NatStr(p.dm_exce_music_num)),
            LabelledSection("DM Highest Clear", JSDiv100(p.dm_clear_diff)),
            LabelledSection("DM Highest FC", JSDiv100(p.dm_full_diff)),
            LabelledSection("DM Highest EXFC", JSDiv100(p.dm_exce_diff)) >>]
    ELSE Notice

\* GFHotColumns with the level and the skill divided as integers.
GFHotColumnsIntegerDivision(entry) ==
    [Music |-> entry.music_name,
     Difficulty |-> entry.chart,
     Level |-> NatStr(entry.music_difficulties \div 100),
     Skill |-> NatStr(entry.skills_point \div 100),
     Perc |-> IF entry.perc = -1 THEN <<"-">> ELSE JSDiv100(entry.perc) \o <<"%">>]

\* The five columns of the Guitarfreaks HOT table.
GFHotColumns(entry) ==
    [Music |-> entry.music_name,
     Difficulty |-> entry.chart,
     Level |-> JSDiv100(entry.music_difficulties),
     Skill |-> JSDiv100(entry.skills_point),
     Perc |-> IF entry.perc = -1 THEN <<"-">> ELSE JSDiv100(entry.perc) \o <<"%">>]

\* The five columns of the Guitarfreaks Other table.
GFOtherColumns(entry) ==
    [Music |-> entry.music_name,
     Difficulty |-> entry.chart,
     Level |-> JSDiv100(entry.music_difficulties),
     Skill |-> JSDiv100(entry.skills_point),
     Perc |-> IF entry.perc = -1 THEN <<"-">> ELSE JSDiv100(entry.perc) \o <<"%">>]

\* The five columns of the Drummania HOT table.
DMHotColumns(entry) ==
    [Music |-> entry.music_name,
     Difficulty |-> entry.chart,
     Level |-> JSDiv100(entry.music_difficulties),
     Skill |-> JSDiv100(entry.skills_point),
     Perc |-> IF entry.perc = -1 THEN <<"-">> ELSE JSDiv100(entry.perc) \o <<"%">>]

\* DMOtherColumns without the test for the sentinel.
DMOtherColumnsNoSentinel(entry) ==
    [Music |-> entry.music_name,
     Difficulty |-> entry.chart,
     Level |-> JSDiv100(entry.music_difficulties),
     Skill |-> JSDiv100(entry.skills_point),
     Perc |-> JSDiv100(entry.perc) \o <<"%">>]

\* The five columns of the Drummania Other table.
DMOtherColumns(entry) ==
    [Music |-> entry.music_name,
     Difficulty |-> entry.chart,
     Level |-> JSDiv100(entry.music_difficulties),
     Skill |-> JSDiv100(entry.skills_point),
     Perc |-> IF entry.perc = -1 THEN <<"-">> ELSE JSDiv100(entry.perc) \o <<"%">>]

\* typeof x === 'undefined' || x.length == 0: reading length of null raises.
renderSkillTableGFHot(v, p) ==
    IF p.gf_exist = Undefined THEN NullElement
    ELSE IF p.gf_exist = Null THEN TypeError
    ELSE IF Len(p.gf_exist.v) = 0 THEN NullElement
    ELSE IF v >= MinSkillsVersion
    THEN LET rows == SortSkill(p.gf_exist.v)
         IN  Table("list guitarfreaks", "Guitarfreaks HOT", rows,
                   [i \in 1..Len(rows) |-> GFHotColumns(rows[i])])
    ELSE Notice

renderSkillTableGFOther(v, p) ==
    IF p.gf_new = Undefined THEN NullElement
    ELSE IF p.gf_new = Null THEN TypeError
    ELSE IF Len(p.gf_new.v) = 0 THEN NullElement
    ELSE IF v >= MinSkillsVersion
    THEN LET rows == SortSkill(p.gf_new.v)
         IN  Table("list guitarfreaks", "Guitarfreaks Other", rows,
                   [i \in 1..Len(rows) |-> GFOtherColumns(rows[i])])
    ELSE Notice

renderSkillTableDMHot(v, p) ==
    IF p.dm_exist = Undefined THEN NullElement
    ELSE IF p.dm_exist = Null THEN TypeError
    ELSE IF Len(p.dm_exist.v) = 0 THEN NullElement
    ELSE IF v >= MinSkillsVersion
    THEN LET rows == SortSkill(p.dm_exist.v)
         IN  Table("list drummania", "Drummania HOT", rows,
                   [i \in 1..Len(rows) |-> DMHotColumns(rows[i])])
    ELSE Notice

renderSkillTableDMOther(v, p) ==
    IF p.dm_new = Undefined THEN NullElement
    ELSE IF p.dm_new = Null THEN TypeError
    ELSE IF Len(p.dm_new.v) = 0 THEN NullElement
    ELSE IF v >= MinSkillsVersion
    THEN LET rows == SortSkill(p.dm_new.v)
         IN  Table("list drummania", "Drummania Other", rows,
                   [i \in 1..Len(rows) |-> DMOtherColumns(rows[i])])
    ELSE Notice

\* renderSkillTableGF without the test of the version.
renderSkillTableGFNoGate(v, p) ==
    LET hot == renderSkillTableGFHot(v, p)
        other == renderSkillTableGFOther(v, p)
    IN  IF Throws(hot) THEN hot
        ELSE IF Throws(other) THEN other
        ELSE [kind |-> "row", hot |-> hot, other |-> other]

\* The children are evaluated in order; the first that raises ends the call.
renderSkillTableGF(v, p) ==
    IF v >= MinSkillsVersion
    THEN LET hot == renderSkillTableGFHot(v, p)
             other == renderSkillTableGFOther(v, p)
         IN  IF Throws(hot) THEN hot
             ELSE IF Throws(other) THEN other
             ELSE [kind |-> "row", hot |-> hot, other |-> other]
    ELSE NullElement

renderSkillTableDM(v, p) ==
    IF v >= MinSkillsVersion
    THEN LET hot == renderSkillTableDMHot(v, p)
             other == renderSkillTableDMOther(v, p)
         IN  IF Throws(hot) THEN hot
             ELSE IF Throws(other) THEN other
             ELSE [kind |-> "row", hot |-> hot, other |-> other]
    ELSE NullElement

\* this.state.profiles: Object.keys(window.player)
Profiles(pl) == ObjectKeys(DOMAIN pl)

\* Object.keys(window.versions).map(k => window.versions[k])
Items(vs) == LET ks == ObjectKeys(DOMAIN vs) IN [i \in 1..Len(ks) |-> vs[ks[i]]]

\* window.versions[v]
VersionName(vs, v) == IF v \in DOMAIN vs THEN vs[v] ELSE "undefined"

\* The branch of render taken when the snapshot holds a record for v.
renderSkills(vs, pl, v) ==
    LET p == pl[v]
        profiles == Profiles(pl)
        gfSkills == renderSkillsGF(v, p)
        gfTable == renderSkillTableGF(v, p)
        dmSkills == renderSkillsDM(v, p)
        dmTable == renderSkillTableDM(v, p)
    IN  IF Throws(gfTable) THEN gfTable
        ELSE IF Throws(dmTable) THEN dmTable
        ELSE [kind |-> "skills",
              back |-> [page |-> "profile", version |-> v],
              title |-> p.name,
              tabs |-> [i \in 1..Len(profiles) |->
                          [title |-> VersionName(vs, profiles[i]),
                           active |-> (v = profiles[i]),
                           version |-> profiles[i]]],
              gfSkills |-> gfSkills, gfTable |-> gfTable,
              dmSkills |-> dmSkills, dmTable |-> dmTable]

\* The branch of render taken when the snapshot holds no record for v.
renderPicker(vs, pl, v) ==
    LET item == Items(vs)
    IN  [kind |-> "picker",
         value |-> IndexOf(item, At(item, v - 1)),
         items |-> item,
         message |-> VersionName(vs, v)]

render(vs, pl, v) ==
    IF v \in DOMAIN pl THEN renderSkills(vs, pl, v) ELSE renderPicker(vs, pl, v)

----------------------------------------------------------------------------
(* The navigation state (History) *)

\* pagenav.getInitialState(default): the version the navigation state holds,
\* or the default when it holds none.
HistoryGetInitialState(h, default) == IF h # 0 THEN h ELSE default

\* pagenav.navigate(version): records the selection as the newest entry.
HistoryNavigate(entries, v) == Append(entries, v)

----------------------------------------------------------------------------
(* The snapshots the view is loaded with *)

Entry(name, chart, level, skill, perc) ==
    [music_name |-> name, chart |-> chart, music_difficulties |-> level,
     skills_point |-> skill, perc |-> perc]

\* A score that was never played: the percentage is the sentinel.
Unplayed == Entry("Unplayed song", "BASIC", 100, 0, -1)

Entries ==
    { Unplayed,
      Entry("Song A", "BASIC", 150, 1, 0),
      Entry("Song B", "ADVANCED", 305, 70, 1),
      Entry("Song C", "ADVANCED", 470, 1234, 50),
      Entry("Song D", "EXTREME", 600, 9000, 100),
      Entry("Song E", "EXTREME", 785, 15007, 9550),
      Entry("Song F", "MASTER", 999, 19980, 9999),
      Entry("Song G", "MASTER", 1000, 20000, 10000) }

\* What a sub-list of a player record may hold, given one score entry.
SubLists(e) == {Undefined, Null, List(<<>>), List(<<e>>), List(<<Unplayed, e>>)}

PlayerRecord(gfExist, gfNew, dmExist, dmNew) ==
    [name |-> "PLAYER",
     gf_skills |-> 512345, gf_all_skills |-> 600000, gf_classic_all_skills |-> 7,
     gf_clear_music_num |-> 321, gf_full_music_num |-> 45, gf_exce_music_num |-> 0,
     gf_clear_diff |-> 850, gf_full_diff |-> 705, gf_exce_diff |-> 0,
     dm_skills |-> 498760, dm_all_skills |-> 500010, dm_classic_all_skills |-> 100,
     dm_clear_music_num |-> 400, dm_full_music_num |-> 12, dm_exce_music_num |-> 1,
     dm_clear_diff |-> 990, dm_full_diff |-> 640, dm_exce_diff |-> 210,
     gf_exist |-> gfExist, gf_new |-> gfNew, dm_exist |-> dmExist, dm_new |-> dmNew]

\* Every shape of the four sub-lists.
AllRecords ==
    { PlayerRecord(a, b, c, d) :
        a \in UNION {SubLists(e) : e \in Entries}, b \in SubLists(Unplayed),
        c \in SubLists(CHOOSE e \in Entries : e.perc = 9550),
        d \in SubLists(CHOOSE e \in Entries : e.perc = 1) }

\* Two records: one with scores in every sub-list, one with an absent, an
\* empty and a null sub-list.
SomeRecords ==
    { PlayerRecord(List(<<Unplayed, CHOOSE e \in Entries : e.perc = 50>>),
                   List(<<CHOOSE e \in Entries : e.perc = 0>>),
                   List(<<CHOOSE e \in Entries : e.perc = 10000>>),
                   List(<<Unplayed>>)),
      PlayerRecord(List(<<Unplayed>>), Undefined, List(<<>>), Null) }

\* window.versions for a set of version numbers.
Catalog(K) == [k \in K |-> "GITADORA " \o ToString(k)]

\* The catalogs: every version from the first, or the versions with skills.
Catalogs == {Catalog(1..MaxVersion), Catalog(MinSkillsVersion..MaxVersion)}

\* The versions a player may hold a record for: the last one without skills
\* and the first two with skills.
ProfileVersions(vs) == DOMAIN vs \cap ((MinSkillsVersion - 1)..(MinSkillsVersion + 1))

----------------------------------------------------------------------------
(* The skills view *)

NoEvent == [handler |-> "none", index |-> -1, asked |-> 0, was |-> 0]

\* getInitialState with the first of the profile keys as the default.
getInitialStateFirst(pl, h) ==
    LET profiles == Profiles(pl)
    IN  HistoryGetInitialState(h, profiles[1])

\* getInitialState: the last of the profile keys, unless a version is restored.
getInitialState(pl, h) ==
    LET profiles == Profiles(pl)
    IN  HistoryGetInitialState(h, profiles[Len(profiles)])

\* The state after the page has loaded and ReactDOM.render has run.
Mounted ==
    /\ version = getInitialState(player, hash)
    /\ history = <<>>
    /\ lastEvent = NoEvent
    /\ view = render(versions, player, version)

InitView ==
    /\ versions \in Catalogs
    /\ player \in { [k \in K |-> r] :
                      K \in (SUBSET ProfileVersions(versions)) \ {{}}, r \in SomeRecords }
    /\ hash \in {0} \cup DOMAIN versions
    /\ Mounted

\* One record in every shape, held for the last version without skills and
\* the first with skills.
InitRender ==
    /\ versions = Catalog(1..MaxVersion)
    /\ player \in { [k \in {MinSkillsVersion - 1, MinSkillsVersion} |-> r] : r \in AllRecords }
    /\ hash = 0
    /\ Mounted

InitViewDefault ==
    /\ versions = Catalog(1..MaxVersion)
    /\ player = [k \in {MinSkillsVersion} |-> PlayerRecord(Undefined, Undefined, Undefined, Undefined)]
    /\ hash = 0
    /\ Mounted

\* NavOnClick navigating to the version that was selected before the click.
NavOnClickStale(v) ==
    /\ view.kind = "skills"
    /\ \E i \in 1..Len(view.tabs) : view.tabs[i].version = v
    /\ lastEvent' = [handler |-> "tab", index |-> -1, asked |-> v, was |-> version]
    /\ IF version = v
       THEN UNCHANGED <<version, history, view>>
       ELSE /\ Len(history) < MaxHistory
            /\ version' = v
            /\ history' = HistoryNavigate(history, version)
            /\ view' = render(versions, player, v)
    /\ UNCHANGED <<versions, player, hash, bootVars>>

\* The onClick handler of the tab of version v.
NavOnClick(v) ==
    /\ view.kind = "skills"
    /\ \E i \in 1..Len(view.tabs) : view.tabs[i].version = v
    /\ lastEvent' = [handler |-> "tab", index |-> -1, asked |-> v, was |-> version]
    /\ IF version = v
       THEN UNCHANGED <<version, history, view>>
       ELSE /\ Len(history) < MaxHistory
            /\ version' = v
            /\ history' = HistoryNavigate(history, v)
            /\ view' = render(versions, player, v)
    /\ UNCHANGED <<versions, player, hash, bootVars>>

\* SelectVersionOnChange without the early return.
SelectVersionOnChangeNoGuard(event) ==
    /\ view.kind = "picker"
    /\ event \in 0..(Len(view.items) - 1)
    /\ LET item == Items(versions)
           v == IndexOf(item, At(item, event)) + 1
       IN  /\ lastEvent' = [handler |-> "picker", index |-> event, asked |-> v, was |-> version]
           /\ Len(history) < MaxHistory
           /\ version' = v
           /\ history' = HistoryNavigate(history, v)
           /\ view' = render(versions, player, v)
    /\ UNCHANGED <<versions, player, hash, bootVars>>

\* The onChange handler of the version picker, for the entry at index event.
SelectVersionOnChange(event) ==
    /\ view.kind = "picker"
    /\ event \in 0..(Len(view.items) - 1)
    /\ LET item == Items(versions)
           v == IndexOf(item, At(item, event)) + 1
       IN  /\ lastEvent' = [handler |-> "picker", index |-> event, asked |-> v, was |-> version]
           /\ IF version = v
              THEN UNCHANGED <<version, history, view>>
              ELSE /\ Len(history) < MaxHistory
                   /\ version' = v
                   /\ history' = HistoryNavigate(history, v)
                   /\ view' = render(versions, player, v)
    /\ UNCHANGED <<versions, player, hash, bootVars>>

NextView ==
    \/ \E v \in 1..MaxVersion : NavOnClick(v)
    \/ \E event \in 0..(MaxVersion - 1) : SelectVersionOnChange(event)

----------------------------------------------------------------------------
(* The bootstrap script *)

\* The ./read lines, in order: <<series, version>>.
Invocations ==
    << <<"pnm", "19">>, <<"pnm", "20">>, <<"pnm", "21">>, <<"pnm", "22">>,
       <<"pnm", "23">>, <<"pnm", "24">>, <<"pnm", "25">>, <<"pnm", "26">>,
       <<"jubeat", "saucer">>, <<"jubeat", "saucer-fulfill">>, <<"jubeat", "prop">>,
       <<"jubeat", "qubell">>, <<"jubeat", "clan">>, <<"jubeat", "festo">>,
       <<"iidx", "20">>, <<"iidx", "21">>, <<"iidx", "22">>, <<"iidx", "23">>,
       <<"iidx", "24">>, <<"iidx", "25">>, <<"iidx", "26">>,
       <<"ddr", "12">>, <<"ddr", "13">>, <<"ddr", "14">>, <<"ddr", "15">>,
       <<"ddr", "16">>,
       <<"sdvx", "1">>, <<"sdvx", "2">>, <<"sdvx", "3">>, <<"sdvx", "4">>,
       <<"museca", "1">>, <<"museca", "1+1/2">>,
       <<"reflec", "1">>, <<"reflec", "2">>, <<"reflec", "3">>, <<"reflec", "4">>,
       <<"reflec", "5">>, <<"reflec", "6">>,
       <<"gitadora", "7">>, <<"gitadora", "8">>, <<"gitadora", "9">> >>

InitBoot ==
    /\ pc = 1
    /\ ran = <<>>
    /\ exited = FALSE
    /\ exitCode = 0

\* RunRead without set -e: the script goes on after a failure.
RunReadNoErrexit(rc) ==
    /\ ~exited
    /\ pc \in 1..Len(Invocations)
    /\ ran' = Append(ran, [cmd |-> Invocations[pc], rc |-> rc])
    /\ pc' = pc + 1
    /\ UNCHANGED <<exited, exitCode>>
    /\ UNCHANGED viewVars

\* One ./read line returning rc, under set -e: a non-zero exit code ends the
\* shell with that code.
RunRead(rc) ==
    /\ ~exited
    /\ pc \in 1..Len(Invocations)
    /\ ran' = Append(ran, [cmd |-> Invocations[pc], rc |-> rc])
    /\ IF rc # 0
       THEN exited' = TRUE /\ exitCode' = rc /\ pc' = pc
       ELSE pc' = pc + 1 /\ UNCHANGED <<exited, exitCode>>
    /\ UNCHANGED viewVars

\* The end of the script: the shell exits with the status of the last command.
EndOfScript ==
    /\ ~exited
    /\ pc = Len(Invocations) + 1
    /\ exited' = TRUE
    /\ exitCode' = ran[Len(ran)].rc
    /\ UNCHANGED <<pc, ran>>
    /\ UNCHANGED viewVars

NextBoot ==
    \/ \E rc \in 0..MaxExit : RunRead(rc)
    \/ EndOfScript

----------------------------------------------------------------------------
(* Specifications *)

Init == InitView /\ InitBoot

InitRenderAll == InitRender /\ InitBoot

InitBootOnly == InitViewDefault /\ InitBoot

NextRender == \E v \in 1..MaxVersion : NavOnClick(v)

\* The skills view over catalogs, snapshots and restored versions.
Spec == Init /\ [][NextView]_vars

\* The skills view over every shape of a player record.
SpecRender == InitRenderAll /\ [][NextRender]_vars

\* The bootstrap script.
SpecBoot == InitBootOnly /\ [][NextBoot]_vars

----------------------------------------------------------------------------
(* Reading a rendered view *)

IsDigit(c) == \E d \in 0..9 : Digit(d) = c

DigitVal(c) == CHOOSE d \in 0..9 : Digit(d) = c

RECURSIVE DigitsVal(_)
DigitsVal(s) ==
    IF s = <<>> THEN 0
    ELSE DigitsVal(SubSeq(s, 1, Len(s) - 1)) * 10 + DigitVal(s[Len(s)])

\* The number a decimal numeral denotes, in hundredths; ok is FALSE when the
\* text is no numeral with at most two decimals.
ParseDecimal(s) ==
    LET neg == s # <<>> /\ s[1] = "-"
        body == IF neg THEN Tail(s) ELSE s
        dot == IndexOf(body, ".")
        ip == IF dot = -1 THEN body ELSE SubSeq(body, 1, dot)
        fp == IF dot = -1 THEN <<>> ELSE SubSeq(body, dot + 2, Len(body))
        ok == /\ ip # <<>>
              /\ \A i \in 1..Len(ip) : IsDigit(ip[i])
              /\ \A i \in 1..Len(fp) : IsDigit(fp[i])
              /\ Len(fp) <= 2
              /\ dot # -1 => fp # <<>>
        frac == IF Len(fp) = 1 THEN DigitVal(fp[1]) * 10 ELSE DigitsVal(fp)
    IN  [ok |-> ok,
         hundredths |-> IF ok THEN (IF neg THEN -1 ELSE 1) * (DigitsVal(ip) * 100 + frac)
                        ELSE 0]

\* The text shows n / 100.
ShowsDiv100(text, n) ==
    LET parsed == ParseDecimal(text) IN parsed.ok /\ parsed.hundredths = n

\* The text shows n / 100 followed by "%".
ShowsPercent(text, n) ==
    /\ Len(text) >= 2
    /\ text[Len(text)] = "%"
    /\ ShowsDiv100(SubSeq(text, 1, Len(text) - 1), n)

Shown == view.kind = "skills"

HasRecord == version \in DOMAIN player

\* The four score tables of the view: the sub-list each is fed from and the
\* element rendered in its place ("null" when its section rendered nothing).
ScoreTables ==
    IF ~(Shown /\ HasRecord) THEN {}
    ELSE LET p == player[version]
             gf == view.gfTable
             dm == view.dmTable
         IN  { [list |-> p.gf_exist, elem |-> IF gf.kind = "row" THEN gf.hot ELSE gf],
               [list |-> p.gf_new, elem |-> IF gf.kind = "row" THEN gf.other ELSE gf],
               [list |-> p.dm_exist, elem |-> IF dm.kind = "row" THEN dm.hot ELSE dm],
               [list |-> p.dm_new, elem |-> IF dm.kind = "row" THEN dm.other ELSE dm] }

\* The lines of the displayed score tables.
ScoreLines ==
    UNION { {t.elem.lines[i] : i \in 1..Len(t.elem.lines)} :
              t \in {u \in ScoreTables : u.elem.kind = "table"} }

\* Every entry of a displayed table's sub-list has a line.
EveryEntryHasLine ==
    \A t \in ScoreTables :
        t.elem.kind = "table" =>
            /\ Len(t.elem.lines) = Len(t.list.v)
            /\ \A j \in 1..Len(t.list.v) :
                 \E i \in 1..Len(t.elem.lines) : t.elem.lines[i].entry = t.list.v[j]

\* The per-song fields read while rendering the view.
FieldsRead ==
    UNION { t.elem.reads : t \in {u \in ScoreTables : u.elem.kind = "table"} }

NonEmptyList(x) == x.t = "list" /\ x.v # <<>>

----------------------------------------------------------------------------
(* C1 *)

----------------------------------------------------------------------------
(* C2 *)

\* C2: render shows the version picker with the "no profile" message exactly
\* when the snapshot holds no record for the selected version, and the full
\* skills layout exactly when it holds one.
C2_ViewFollowsRecord ==
    /\ view.kind = "picker" <=> ~HasRecord
    /\ view.kind = "skills" <=> HasRecord
    /\ view.kind = "picker" => view.message = VersionName(versions, version)
    /\ view.kind = "skills" =>
         /\ view.back.version = version
         /\ Len(view.tabs) = Cardinality(DOMAIN player)

----------------------------------------------------------------------------
(* C3 *)

----------------------------------------------------------------------------
(* C4 *)

\* C4: the invocations run in order; once one exits non-zero no later one
\* runs and the script exits with that code; if all succeed it exits 0.
C4_FailFast ==
    /\ \A i \in 1..Len(ran) : ran[i].cmd = Invocations[i]
    /\ \A i \in 1..(Len(ran) - 1) : ran[i].rc = 0
    /\ (ran # <<>> /\ ran[Len(ran)].rc # 0) =>
         (exited /\ exitCode = ran[Len(ran)].rc /\ exitCode # 0)
    /\ (exited /\ \A i \in 1..Len(ran) : ran[i].rc = 0) =>
         (Len(ran) = Len(Invocations) /\ exitCode = 0)

\* The script has ended on a failure of the fifth invocation.
C4_Witness ==
    /\ exited
    /\ Len(ran) = 5
    /\ exitCode # 0

----------------------------------------------------------------------------
(* C5 *)

\* C5: in every displayed score table, an entry whose stored percentage is -1
\* shows "-" in the Perc cell, and any other entry shows the stored value
\* divided by 100 followed by "%".
C5_PercCell ==
    /\ EveryEntryHasLine
    /\ \A l \in ScoreLines :
         IF l.entry.perc = -1
         THEN l.cells.Perc = <<"-">>
         ELSE ShowsPercent(l.cells.Perc, l.entry.perc)

\* All four tables are displayed, with a dash and with "95.5%" among the cells.
C5_Witness ==
    /\ Shown
    /\ \A t \in ScoreTables : t.elem.kind = "table"
    /\ \E l \in ScoreLines : l.entry.perc = -1 /\ l.cells.Perc = <<"-">>
    /\ \E l \in ScoreLines : l.cells.Perc = <<"9", "5", ".", "5", "%">>

----------------------------------------------------------------------------
(* C6 *)

\* C6: before any selection, the selected version is the restored version
\* when the navigation state holds one, and otherwise the highest version
\* the snapshot holds a record for.
C6_InitialVersion ==
    lastEvent.handler = "none" =>
        IF hash # 0
        THEN version = hash
        ELSE version \in DOMAIN player /\ \A k \in DOMAIN player : k <= version

\* Nothing is restored and the snapshot holds several records.
C6_Witness ==
    /\ lastEvent.handler = "none"
    /\ hash = 0
    /\ Cardinality(DOMAIN player) >= 2
    /\ version = MinSkillsVersion + 1

----------------------------------------------------------------------------
(* C7 *)

\* C7: the newest navigation entry is the selected version, and while there
\* is no entry the selected version is the initial one.
C7_HistoryMirrorsVersion ==
    IF history = <<>>
    THEN version = HistoryGetInitialState(hash, Profiles(player)[Len(Profiles(player))])
    ELSE history[Len(history)] = version

\* Two selections were recorded, the last one from a tab.
C7_Witness ==
    /\ Len(history) >= 2
    /\ lastEvent.handler = "tab"
    /\ lastEvent.asked # lastEvent.was

----------------------------------------------------------------------------
(* C8 *)

\* C8: in every displayed score table, the Level cell shows the stored
\* music_difficulties divided by 100 and the Skill cell the stored
\* skills_point divided by 100.
C8_LevelAndSkillCells ==
    /\ EveryEntryHasLine
    /\ \A l \in ScoreLines :
         /\ ShowsDiv100(l.cells.Level, l.entry.music_difficulties)
         /\ ShowsDiv100(l.cells.Skill, l.entry.skills_point)

\* All four tables are displayed, one with a level of 7.85 and a skill of 150.07.
C8_Witness ==
    /\ Shown
    /\ \A t \in ScoreTables : t.elem.kind = "table"
    /\ \E l \in ScoreLines :
         /\ l.cells.Level = <<"7", ".", "8", "5">>
         /\ l.cells.Skill = <<"1", "5", "0", ".", "0", "7">>

----------------------------------------------------------------------------
(* C9 *)

\* C9: at a supported version with a player record, rendering raises no
\* error, and a score table is rendered exactly for the sub-lists that are
\* non-empty lists; an absent, null or empty sub-list renders nothing.
C9_MalformedIsNoData ==
    (HasRecord /\ version >= MinSkillsVersion) =>
        /\ ~Throws(view)
        /\ \A t \in ScoreTables :
             IF NonEmptyList(t.list) THEN t.elem.kind = "table" ELSE t.elem = NullElement

----------------------------------------------------------------------------
(* C10 *)

\* C10: the selected version is a key of the version catalog, and the picker
\* entry at index k selects the catalog version displayed at position k.
C10_SelectedInCatalog ==
    /\ version \in DOMAIN versions
    /\ lastEvent.handler = "picker" =>
         version = ObjectKeys(DOMAIN versions)[lastEvent.index + 1]

====
